---- MODULE Spec2Model ----
(***************************************************************************)
(* State-machine model of the Welstory API wrapper: the client session     *)
(* (WelstoryClient), the restaurant entity (WelstoryRestaurant) and the    *)
(* meal entity (WelstoryMeal).  Every public operation is one action; the  *)
(* remote service is the environment, and each action draws the outcome of *)
(* every fetch it issues from the set of outcomes the service can produce. *)
(* The caller awaits each call before it makes the next one: a call runs   *)
(* from the idle client, and Return hands its settled promise back.        *)
(*                                                                         *)
(* Spec is that client.  TransportSpec is universalFetch with xhrFetch     *)
(* (utils.ts) step by step, ConcurrentSpec two callers that do not await   *)
(* each other, AutomaticSpec the client under the passing of time.         *)
(***************************************************************************)
EXTENDS Integers, Sequences, FiniteSets, TLC

VARIABLES
  accessToken,   \* WelstoryClient.accessToken : string | undefined
  deviceId,      \* WelstoryClient.deviceId (readonly)
  baseUrl,       \* WelstoryClient.baseUrl (readonly)
  op,            \* the call whose promise has just settled ("idle": none)
  sent,          \* the requests that call handed to fetch, in order
  got,           \* what fetch settled with for each of them, in order
  hist,          \* history: the token of the last login that resolved, and
                 \* whether a login or a refreshSession has resolved yet
  env,           \* which HTTP primitives the process offers universalFetch
  net,           \* the universalFetch call in progress and its XMLHttpRequest
  calls,         \* the calls of concurrent callers, each at its await
  registered,    \* service side: the restaurants in the user's list
  refreshOption, \* automaticTokenRefresh as passed to the constructor and
                 \* to the last login
  clock          \* the time the event loop has reached, in milliseconds

vars == <<accessToken, deviceId, baseUrl, op, sent, got, hist,
          env, net, calls, registered, refreshOption, clock>>

\* The state of universalFetch, of concurrent callers, of the refresh option
transport == <<env, net>>
concurrent == <<calls, registered>>
automatic == <<refreshOption, clock>>

----------------------------------------------------------------------------
(* Bounds of the model.                                                    *)

\* Date.now() is read at 100000 ms + k * 500 ms for k in 0..MaxClockSteps.
MaxClockSteps == 1

\* The longest array the service puts in a response body.
MaxListLen == 2

----------------------------------------------------------------------------
(* JavaScript values.                                                      *)

Undefined == [t |-> "undefined"]
Null      == [t |-> "null"]
NaN       == [t |-> "NaN"]
Str(s)    == [t |-> "string", s |-> s]
Num(n)    == [t |-> "number", n |-> n, d |-> 1]   \* the number n / d
Bool(b)   == [t |-> "boolean", b |-> b]
Arr(a)    == [t |-> "array", a |-> a]
Obj(o)    == [t |-> "object", o |-> o]

EmptyObj == [k \in {} |-> ""]

\* value?.key : undefined on null/undefined and on a missing property
Prop(v, key) ==
  IF v.t = "object" /\ key \in DOMAIN v.o THEN v.o[key] ELSE Undefined

\* typeof v === 'string'
IsString(v) == v.t = "string"

\* The decimal fraction n / d (d a power of ten) in lowest decimal terms
RECURSIVE Decimal(_, _)
Decimal(n, d) ==
  IF d > 1 /\ n % 10 = 0 THEN Decimal(n \div 10, d \div 10)
  ELSE [t |-> "number", n |-> n, d |-> d]

\* a * b and a - b on JavaScript values: NaN unless both are numbers
JsTimes(a, b) ==
  IF a.t = "number" /\ b.t = "number" THEN Decimal(a.n * b.n, a.d * b.d)
  ELSE NaN

JsMinus(a, b) ==
  IF a.t = "number" /\ b.t = "number"
  THEN Decimal(a.n * b.d - b.n * a.d, a.d * b.d)
  ELSE NaN

----------------------------------------------------------------------------
(* Settled promises.                                                       *)

Resolved(v) == [outcome |-> "resolved", value |-> v, error |-> "none"]
Rejected(e) == [outcome |-> "rejected", value |-> Undefined, error |-> e]

----------------------------------------------------------------------------
(* HTTP bodies, headers and responses as the fetch primitive reports them. *)

\* A body is text; it is either not JSON or the JSON text of one value.
NotJson   == [json |-> FALSE]
Json(v)   == [json |-> TRUE, v |-> v]

\* response.json(): rejects on text that is not JSON
ResponseJson(response) ==
  IF response.body.json THEN Resolved(response.body.v)
                        ELSE Rejected("SyntaxError")

\* Header names are matched without regard to letter case.
Lower(name) ==
  CASE name = "Authorization" -> "authorization"
    [] name = "X-Device-Id"   -> "x-device-id"
    [] name = "User-Agent"    -> "user-agent"
    [] name = "Content-Type"  -> "content-type"
    [] name = "X-Autologin"   -> "x-autologin"
    [] name = "Cookie"        -> "cookie"
    [] OTHER                  -> name

\* response.headers.get(name): null when the header is not there
HeadersGet(headers, name) ==
  IF Lower(name) \in DOMAIN headers THEN Str(headers[Lower(name)]) ELSE Null

Statuses == {200, 204, 401, 500}

\* response.ok
Ok(status) == status >= 200 /\ status < 300

Response(status, headers, body) ==
  [t |-> "response", status |-> status, ok |-> Ok(status),
   headers |-> headers, body |-> body]

\* fetch rejects when the transport fails
TransportError == [t |-> "error", message |-> "fetch failed"]

----------------------------------------------------------------------------
(* Bearer tokens as the service issues them, and jsonwebtoken's decode.    *)

Tokens == {"", "opaque", "jwt.noexp", "jwt.strexp", "jwt.exp220"}

\* One endpoint: its path and its query parameters
Endpoint(path, query) == [path |-> path, query |-> query]

\* decode(token): null for a string that is no JWT, else the payload
decode(token) ==
  CASE token = "jwt.noexp"  -> Obj([sub |-> Str("u1")])
    [] token = "jwt.strexp" -> Obj([sub |-> Str("u1"), exp |-> Str("soon")])
    [] token = "jwt.exp220" -> Obj([sub |-> Str("u1"), exp |-> Num(220)])
    [] OTHER                -> Null

\* Date.now(), in milliseconds
ClockValues == {100000 + k * 500 : k \in 0..MaxClockSteps}

----------------------------------------------------------------------------
(* Endpoints.                                                              *)

LOGIN == Endpoint("/login", EmptyObj)
SESSION_REFRESH == Endpoint("/session", EmptyObj)
LIST_MY_RESTAURANT == Endpoint("/api/mypage/rest-my-list", EmptyObj)
REGISTER_MY_RESTAURANT == Endpoint("/api/mypage/rest-regi", EmptyObj)
DELETE_MY_RESTAURANT == Endpoint("/api/mypage/rest-delete", EmptyObj)
LIST_MEAL_TIME == Endpoint("/api/menu/getMealTimeList", EmptyObj)
SEARCH_RESTAURANT(searchQuery) ==
  Endpoint("/api/mypage/rest-list", [restaurantName |-> searchQuery])

LIST_MEAL(date, mealTimeId, restaurantId) ==
  Endpoint("/api/meal",
           [menuDt |-> date, menuMealType |-> mealTimeId,
            restaurantCode |-> restaurantId])

LIST_MEAL_NUTRIENT(date, mealTimeId, hallNo, menuCourseType, restaurantId) ==
  Endpoint("/api/meal/detail/nutrient",
           [menuDt |-> date, hallNo |-> hallNo,
            menuCourseType |-> menuCourseType, menuMealType |-> mealTimeId,
            restaurantCode |-> restaurantId])

----------------------------------------------------------------------------
(* WelstoryClient.request                                                  *)

\* RequestInit as the callers of request build it
Options(method, headers, body) ==
  [method |-> method, headers |-> headers, body |-> body]

\* Request bodies: none, a form (URLSearchParams) or JSON.stringify(value)
FormBody(fields) == [t |-> "form", fields |-> fields]
JsonBody(v)      == [t |-> "json", v |-> v]

\* request(endpoint) without options: fetch's defaults
NoOptions == Options("GET", EmptyObj, Undefined)

\* Mutant: Authorization is attached only to a truthy token
\* (this.accessToken ? ... : {}), so the empty string goes unsent
MergedHeaders_TruthyToken(token, device, headers) ==
  headers
    @@ (IF token # Undefined /\ token.s # ""
        THEN ("Authorization" :> token.s) ELSE EmptyObj)
    @@ ("User-Agent" :> "Welplus" @@ "X-Device-Id" :> device)

\* { 'User-Agent', 'X-Device-Id', Authorization if a token is held,
\*   ...options.headers }: a later key replaces an equal earlier key
MergedHeaders(token, device, headers) ==
  headers
    @@ (IF token # Undefined THEN ("Authorization" :> token.s) ELSE EmptyObj)
    @@ ("User-Agent" :> "Welplus" @@ "X-Device-Id" :> device)

\* The arguments request hands to fetch
FetchArgs(token, device, base, endpoint, options) ==
  [url     |-> [base |-> base, path |-> endpoint],
   method  |-> options.method,
   body    |-> options.body,
   headers |-> MergedHeaders(token, device, options.headers)]

\* What the service receives under one header name: the values of every key
\* of the init object that names this header, whatever its letter case
WireValues(headers, lname) ==
  {headers[k] : k \in {x \in DOMAIN headers : Lower(x) = lname}}

----------------------------------------------------------------------------
(* The call record: which operation ran, with which arguments, how it      *)
(* settled, and the value Date.now() returned when the operation read the  *)
(* clock (else 0).                                                         *)

Ran(name, args, settled, now) ==
  [name |-> name, args |-> args, outcome |-> settled.outcome,
   value |-> settled.value, error |-> settled.error, now |-> now]

\* No call is in progress
Idle == Ran("idle", EmptyObj, Resolved(Undefined), 0)

----------------------------------------------------------------------------
(* WelstoryClient.login                                                    *)

Credentials == [username |-> "user", password |-> "pw"]

LoginOptions ==
  Options("POST",
          ("Content-Type" :> "application/x-www-form-urlencoded"
             @@ "X-Autologin" :> "N"),
          FormBody([username |-> Credentials.username,
                    password |-> Credentials.password,
                    rememberMe |-> "false"]))

\* Mutant: the token is stored only after the body has parsed
login_StoresAfterParse(token, fetched) ==
  IF fetched.t = "error"
  THEN [token |-> token, settled |-> Rejected("TransportError")]
  ELSE LET header == HeadersGet(fetched.headers, "Authorization")
       IN IF header = Null
          THEN [token |-> token,
                settled |-> Rejected("Login failed: No access token received")]
          ELSE [token |-> IF fetched.body.json THEN header ELSE token,
                settled |-> ResponseJson(fetched)]

\* Mutant: a response without the header passes when its status is ok
login_TrustsStatus(token, fetched) ==
  IF fetched.t = "error"
  THEN [token |-> token, settled |-> Rejected("TransportError")]
  ELSE LET header == HeadersGet(fetched.headers, "Authorization")
       IN IF header = Null /\ ~fetched.ok
          THEN [token |-> token,
                settled |-> Rejected("Login failed: No access token received")]
          ELSE [token |-> IF header = Null THEN token ELSE header,
                settled |-> ResponseJson(fetched)]

\* The body of login after the request settled: the token it leaves in
\* accessToken and how its promise settles
\* Mutant: a token that is held is not overwritten
login_KeepsHeldToken(token, fetched) ==
  IF fetched.t = "error"
  THEN [token |-> token, settled |-> Rejected("TransportError")]
  ELSE LET header == HeadersGet(fetched.headers, "Authorization")
       IN IF header = Null
          THEN [token |-> token,
                settled |-> Rejected("Login failed: No access token received")]
          ELSE [token |-> IF token = Undefined THEN header ELSE token,
                settled |-> ResponseJson(fetched)]

login(token, fetched) ==
  IF fetched.t = "error"
  THEN [token |-> token, settled |-> Rejected("TransportError")]
  ELSE LET header == HeadersGet(fetched.headers, "Authorization")
       IN IF header = Null
          THEN [token |-> token,
                settled |-> Rejected("Login failed: No access token received")]
          ELSE [token |-> header, settled |-> ResponseJson(fetched)]

UserInfos == {Obj([gender |-> Str("M"), bizName |-> Str("biz"), id |-> Str("u1")])}

AuthHeaders == {EmptyObj} \cup {("authorization" :> tk) : tk \in Tokens}

LoginOutcomes ==
  {TransportError}
    \cup {Response(st, h, b) : st \in Statuses, h \in AuthHeaders,
                               b \in {NotJson} \cup {Json(u) : u \in UserInfos}}

\* login is passed automaticTokenRefresh and never reads it
LoginWith(automaticTokenRefresh) ==
  \E fetched \in LoginOutcomes :
    LET r == login(accessToken, fetched)
    IN /\ op.name = "idle"
       /\ accessToken' = r.token
       /\ op' = Ran("login", Credentials, r.settled, 0)
       /\ sent' = <<FetchArgs(accessToken, deviceId, baseUrl, LOGIN, LoginOptions)>>
       /\ got' = <<fetched>>
       /\ hist' = IF r.settled.outcome = "resolved"
                  THEN [loginToken |-> r.token, authenticated |-> TRUE]
                  ELSE hist
       /\ refreshOption' = [refreshOption EXCEPT
                              !.login = automaticTokenRefresh]
       /\ UNCHANGED <<deviceId, baseUrl, transport, concurrent, clock>>

\* A caller that leaves the option out
Login == LoginWith(Undefined)

----------------------------------------------------------------------------
(* WelstoryClient.refreshSession                                           *)

\* The safety margin subtracted from the expiry, in milliseconds
SafetyMarginMs == 30 * 1000

\* Mutant: the expiry is taken for milliseconds
UntilRefresh_ExpInMs(tokenPayload, now) ==
  JsMinus(JsMinus(Prop(tokenPayload, "exp"), Num(now)), Num(SafetyMarginMs))

\* tokenPayload.exp * 1000 - Date.now() - 30 * 1000
UntilRefresh(tokenPayload, now) ==
  JsMinus(JsMinus(JsTimes(Prop(tokenPayload, "exp"), Num(1000)), Num(now)),
          Num(SafetyMarginMs))

\* Mutant: the status of the response is not looked at
refreshSession_IgnoresStatus(token, fetched, now) ==
  IF fetched.t = "error"
  THEN [token |-> token, settled |-> Rejected("TransportError"), now |-> 0]
  ELSE
    LET parsed == ResponseJson(fetched)
        responseBody == IF parsed.outcome = "resolved" THEN parsed.value
                                                       ELSE Undefined
        data == Prop(responseBody, "data")
    IN IF responseBody = Undefined
       THEN [token |-> token,
             settled |-> Rejected("Failed to refresh session"), now |-> 0]
       ELSE IF ~IsString(data)
       THEN [token |-> token,
             settled |-> Rejected("No access token received during session refresh"),
             now |-> 0]
       ELSE IF decode(data.s) = Null
       THEN [token |-> data, settled |-> Rejected("TypeError"), now |-> 0]
       ELSE [token |-> data,
             settled |-> Resolved(UntilRefresh(decode(data.s), now)),
             now |-> now]

\* Mutant: a refresh the service refuses drops the token held
refreshSession_DropsToken(token, fetched, now) ==
  IF fetched.t = "error"
  THEN [token |-> token, settled |-> Rejected("TransportError"), now |-> 0]
  ELSE
    LET parsed == ResponseJson(fetched)
        responseBody == IF parsed.outcome = "resolved" THEN parsed.value
                                                       ELSE Undefined
        data == Prop(responseBody, "data")
    IN IF ~fetched.ok \/ responseBody = Undefined
       THEN [token |-> Undefined,
             settled |-> Rejected("Failed to refresh session"), now |-> 0]
       ELSE IF ~IsString(data)
       THEN [token |-> token,
             settled |-> Rejected("No access token received during session refresh"),
             now |-> 0]
       ELSE IF decode(data.s) = Null
       THEN [token |-> data, settled |-> Rejected("TypeError"), now |-> 0]
       ELSE [token |-> data,
             settled |-> Resolved(UntilRefresh(decode(data.s), now)),
             now |-> now]

\* Mutant: the token is stored only once it has been decoded
refreshSession_StoresAfterDecode(token, fetched, now) ==
  IF fetched.t = "error"
  THEN [token |-> token, settled |-> Rejected("TransportError"), now |-> 0]
  ELSE
    LET parsed == ResponseJson(fetched)
        responseBody == IF parsed.outcome = "resolved" THEN parsed.value
                                                       ELSE Undefined
        data == Prop(responseBody, "data")
    IN IF ~fetched.ok \/ responseBody = Undefined
       THEN [token |-> token,
             settled |-> Rejected("Failed to refresh session"), now |-> 0]
       ELSE IF ~IsString(data)
       THEN [token |-> token,
             settled |-> Rejected("No access token received during session refresh"),
             now |-> 0]
       ELSE IF decode(data.s) = Null
       THEN [token |-> token, settled |-> Rejected("TypeError"), now |-> 0]
       ELSE [token |-> data,
             settled |-> Resolved(UntilRefresh(decode(data.s), now)),
             now |-> now]

\* The body of refreshSession after the request settled
refreshSession(token, fetched, now) ==
  IF fetched.t = "error"
  THEN [token |-> token, settled |-> Rejected("TransportError"), now |-> 0]
  ELSE
    LET parsed == ResponseJson(fetched)
        responseBody == IF parsed.outcome = "resolved" THEN parsed.value
                                                       ELSE Undefined
        data == Prop(responseBody, "data")
    IN IF ~fetched.ok \/ responseBody = Undefined
       THEN [token |-> token,
             settled |-> Rejected("Failed to refresh session"), now |-> 0]
       ELSE IF ~IsString(data)
       THEN [token |-> token,
             settled |-> Rejected("No access token received during session refresh"),
             now |-> 0]
       ELSE IF decode(data.s) = Null
       THEN [token |-> data, settled |-> Rejected("TypeError"), now |-> 0]
       ELSE [token |-> data,
             settled |-> Resolved(UntilRefresh(decode(data.s), now)),
             now |-> now]

RefreshBodies ==
  {NotJson, Json(Null), Json(Obj(EmptyObj)), Json(Obj([data |-> Num(1)])),
   Json(Obj([data |-> Null]))}
    \cup {Json(Obj([data |-> Str(tk)])) : tk \in Tokens}

RefreshOutcomes ==
  {TransportError}
    \cup {Response(st, EmptyObj, b) : st \in Statuses, b \in RefreshBodies}

RefreshSession ==
  \E fetched \in RefreshOutcomes, now \in ClockValues :
    LET r == refreshSession(accessToken, fetched, now)
    IN /\ op.name = "idle"
       /\ accessToken' = r.token
       /\ op' = Ran("refreshSession", EmptyObj, r.settled, r.now)
       /\ sent' = <<FetchArgs(accessToken, deviceId, baseUrl, SESSION_REFRESH, NoOptions)>>
       /\ got' = <<fetched>>
       /\ hist' = IF r.settled.outcome = "resolved"
                  THEN [hist EXCEPT !.authenticated = TRUE]
                  ELSE hist
       /\ UNCHANGED <<deviceId, baseUrl, transport, concurrent, automatic>>

----------------------------------------------------------------------------
(* A direct call of the public request method with the caller's own        *)
(* options.                                                                *)

CallerHeaders ==
  {EmptyObj,
   "X-Device-Id" :> "spoofed", "x-device-id" :> "spoofed",
   "Authorization" :> "caller-token", "authorization" :> "caller-token",
   "User-Agent" :> "curl", "Cookie" :> "c=1"}

PlainOutcomes ==
  {TransportError} \cup {Response(st, EmptyObj, NotJson) : st \in Statuses}

\* request resolves with fetch's response and rejects with fetch's error
request(fetched) ==
  IF fetched.t = "error" THEN Rejected("TransportError") ELSE Resolved(fetched)

Request ==
  \E headers \in CallerHeaders, fetched \in PlainOutcomes :
    /\ op.name = "idle"
    /\ op' = Ran("request", [headers |-> headers], request(fetched), 0)
    /\ sent' = <<FetchArgs(accessToken, deviceId, baseUrl, LIST_MY_RESTAURANT,
                           Options("GET", headers, Undefined))>>
    /\ got' = <<fetched>>
    /\ UNCHANGED <<accessToken, deviceId, baseUrl, hist,
                    transport, concurrent, automatic>>

----------------------------------------------------------------------------
(* Helpers shared by the operations that read a JSON body.                 *)

\* An instance of Error
Error(message) == [t |-> "Error", message |-> message]

\* request(...).then(res => res.json()).catch(err => err): the parsed body,
\* or the Error the request or the parse rejected with
JsonOrError(fetched) ==
  IF fetched.t = "error" THEN Error(fetched.message)
  ELSE IF ~fetched.body.json THEN Error("SyntaxError")
  ELSE fetched.body.v

\* Every sequence over S of at most MaxListLen elements
Lists(S) == UNION {[1..n -> S] : n \in 0..MaxListLen}

\* array.map(callback) where the callback throws thrown[i] (or "none") on
\* element i and otherwise returns made[i]: the first throw ends the call
MapOrThrow(thrown, made) ==
  LET bad == {i \in DOMAIN thrown : thrown[i] # "none"}
  IN IF bad # {}
     THEN Rejected(thrown[CHOOSE i \in bad : \A j \in bad : i <= j])
     ELSE Resolved(Arr(made))

\* The statuses the service answers the listing endpoints with
ListStatuses == {200, 500}

JsonOutcomes(bodies) ==
  {TransportError}
    \cup {Response(st, EmptyObj, b) : st \in ListStatuses, b \in bodies}

----------------------------------------------------------------------------
(* WelstoryClient.searchRestaurant                                         *)

\* The callback of response.data.map: what it throws, what it constructs
RestaurantThrown(restaurant) ==
  IF restaurant.t \in {"null", "undefined"} THEN "TypeError"
  ELSE IF \/ ~IsString(Prop(restaurant, "restaurantCode"))
          \/ ~IsString(Prop(restaurant, "restaurantName"))
          \/ ~IsString(Prop(restaurant, "restaurantDesc"))
  THEN "Invalid restaurant data format"
  ELSE "none"

WelstoryRestaurant(restaurant) ==
  Obj([id          |-> Prop(restaurant, "restaurantCode"),
       name        |-> Prop(restaurant, "restaurantName"),
       description |-> Prop(restaurant, "restaurantDesc")])

\* Mutant: a body without a data array is taken for an empty result
searchRestaurant_EmptyOnMissing(fetched) ==
  LET response == JsonOrError(fetched)
      data == Prop(response, "data")
  IN IF response.t = "Error" THEN Rejected("Failed to search restaurant")
     ELSE IF data.t # "array" THEN Resolved(Arr(<<>>))
     ELSE MapOrThrow([i \in 1..Len(data.a) |-> RestaurantThrown(data.a[i])],
                     [i \in 1..Len(data.a) |-> WelstoryRestaurant(data.a[i])])

searchRestaurant(fetched) ==
  LET response == JsonOrError(fetched)
      data == Prop(response, "data")
  IN IF response.t = "Error" THEN Rejected("Failed to search restaurant")
     ELSE IF data.t # "array" THEN Rejected("Invalid response format")
     ELSE MapOrThrow([i \in 1..Len(data.a) |-> RestaurantThrown(data.a[i])],
                     [i \in 1..Len(data.a) |-> WelstoryRestaurant(data.a[i])])

RestaurantIds == {"R1", "R2"}

RawRestaurant(id) ==
  Obj([restaurantCode |-> Str(id), restaurantName |-> Str("name"),
       restaurantDesc |-> Str("desc")])

RestaurantEntries ==
  {RawRestaurant(id) : id \in RestaurantIds}
    \cup {Obj([restaurantCode |-> Str("R1"), restaurantName |-> Str("name")]),
          Obj([restaurantCode |-> Str("R1"), restaurantName |-> Str("name"),
               restaurantDesc |-> Num(7)]),
          Null}

SearchBodies ==
  {NotJson, Json(Null), Json(Obj(EmptyObj)), Json(Obj([data |-> Str("none")]))}
    \cup {Json(Obj([data |-> Arr(l)])) : l \in Lists(RestaurantEntries)}

SearchRestaurant ==
  \E searchQuery \in {"R5"}, fetched \in JsonOutcomes(SearchBodies) :
    /\ op.name = "idle"
    /\ op' = Ran("searchRestaurant", [searchQuery |-> searchQuery],
                searchRestaurant(fetched), 0)
    /\ sent' = <<FetchArgs(accessToken, deviceId, baseUrl,
                           SEARCH_RESTAURANT(searchQuery), NoOptions)>>
    /\ got' = <<fetched>>
    /\ UNCHANGED <<accessToken, deviceId, baseUrl, hist,
                    transport, concurrent, automatic>>

----------------------------------------------------------------------------
(* WelstoryRestaurant.checkIsRegistered, register, unregister              *)

\* Mutant: any entry in the list counts, whichever restaurant it names
checkIsRegistered_AnyEntry(id, fetched) ==
  LET response == JsonOrError(fetched)
      data == Prop(response, "data")
  IN IF response.t = "Error"
     THEN Rejected("Failed to check if restaurant is registered")
     ELSE IF data.t # "array" THEN Resolved(Bool(FALSE))
     ELSE IF \E i \in 1..Len(data.a) : data.a[i].t \in {"null", "undefined"}
     THEN Rejected("TypeError")
     ELSE Resolved(Bool(Len(data.a) > 0))

\* r.restaurantId === this.id, which throws on a null entry
checkIsRegistered(id, fetched) ==
  LET response == JsonOrError(fetched)
      data == Prop(response, "data")
  IN IF response.t = "Error"
     THEN Rejected("Failed to check if restaurant is registered")
     ELSE IF data.t # "array" THEN Resolved(Bool(FALSE))
     ELSE IF \E i \in 1..Len(data.a) : data.a[i].t \in {"null", "undefined"}
     THEN Rejected("TypeError")
     ELSE Resolved(Bool(
            Cardinality({i \in 1..Len(data.a) :
                           Prop(data.a[i], "restaurantId") = Str(id)}) > 0))

RegisteredEntries ==
  {Obj([restaurantId |-> Str(id)]) : id \in RestaurantIds} \cup {Null}

RegisteredBodies ==
  {NotJson, Json(Obj(EmptyObj)), Json(Obj([data |-> Str("none")]))}
    \cup {Json(Obj([data |-> Arr(l)])) : l \in Lists(RegisteredEntries)}

\* Mutant: a check that fails signs the client out
CheckIsRegistered_SignsOut ==
  \E id \in RestaurantIds, fetched \in JsonOutcomes(RegisteredBodies) :
    LET settled == checkIsRegistered(id, fetched)
    IN /\ op.name = "idle"
       /\ op' = Ran("checkIsRegistered", [id |-> id], settled, 0)
       /\ sent' = <<FetchArgs(accessToken, deviceId, baseUrl,
                              LIST_MY_RESTAURANT, NoOptions)>>
       /\ got' = <<fetched>>
       /\ accessToken' = IF settled.outcome = "rejected" THEN Undefined
                                                         ELSE accessToken
       /\ UNCHANGED <<deviceId, baseUrl, hist, transport, concurrent, automatic>>

CheckIsRegistered ==
  \E id \in RestaurantIds, fetched \in JsonOutcomes(RegisteredBodies) :
    /\ op.name = "idle"
    /\ op' = Ran("checkIsRegistered", [id |-> id],
                checkIsRegistered(id, fetched), 0)
    /\ sent' = <<FetchArgs(accessToken, deviceId, baseUrl, LIST_MY_RESTAURANT,
                           NoOptions)>>
    /\ got' = <<fetched>>
    /\ UNCHANGED <<accessToken, deviceId, baseUrl, hist,
                    transport, concurrent, automatic>>

JsonHeaders == "Content-Type" :> "application/json"

\* Math.floor(Math.random() * 9999) is one of 0..9998
OrderSeqs == {10000 * k : k \in {0, 9998}}

RegisterOptions(id, orderSeq) ==
  Options("POST", JsonHeaders,
          JsonBody(Arr(<<Obj([mainDiv |-> Str("N"), restaurantId |-> Str(id),
                              orderSeq |-> Num(orderSeq)])>>)))

UnregisterOptions(id) ==
  Options("POST", JsonHeaders,
          JsonBody(Arr(<<Obj([hcId |-> Str(""), restaurantId |-> Str(id)])>>)))

PostOutcomes ==
  {TransportError} \cup {Response(st, EmptyObj, NotJson) : st \in ListStatuses}

\* Mutant: whatever the service answers to the POST is taken for success
posted_IgnoresStatus(fetched, failure) ==
  IF fetched.t = "error" THEN Rejected(failure)
  ELSE Resolved(Undefined)

\* The part of register and of unregister after the POST settled
posted(fetched, failure) ==
  IF fetched.t = "error" THEN Rejected(failure)
  ELSE IF ~fetched.ok THEN Rejected(failure)
  ELSE Resolved(Undefined)

\* Mutant: the registration is posted before the check is looked at
register_PostsFirst(token, device, base, id, orderSeq, listed, postResult) ==
  LET check == checkIsRegistered(id, listed)
      get == FetchArgs(token, device, base, LIST_MY_RESTAURANT, NoOptions)
      post == FetchArgs(token, device, base, REGISTER_MY_RESTAURANT,
                        RegisterOptions(id, orderSeq))
  IN IF check.outcome = "rejected"
     THEN [sent |-> <<get>>, got |-> <<listed>>, settled |-> check]
     ELSE IF check.value.b
     THEN [sent |-> <<get, post>>, got |-> <<listed, postResult>>,
           settled |-> Rejected("Restaurant is already registered")]
     ELSE [sent |-> <<get, post>>, got |-> <<listed, postResult>>,
           settled |-> posted(postResult, "Failed to register restaurant")]

\* Mutant: the registration is posted a second time
register_PostsTwice(token, device, base, id, orderSeq, listed, postResult) ==
  LET check == checkIsRegistered(id, listed)
      get == FetchArgs(token, device, base, LIST_MY_RESTAURANT, NoOptions)
      post == FetchArgs(token, device, base, REGISTER_MY_RESTAURANT,
                        RegisterOptions(id, orderSeq))
  IN IF check.outcome = "rejected"
     THEN [sent |-> <<get>>, got |-> <<listed>>, settled |-> check]
     ELSE IF check.value.b
     THEN [sent |-> <<get>>, got |-> <<listed>>,
           settled |-> Rejected("Restaurant is already registered")]
     ELSE [sent |-> <<get, post, post>>,
           got |-> <<listed, postResult, postResult>>,
           settled |-> posted(postResult, "Failed to register restaurant")]

\* register: the requests it issues, the outcomes it consumes, how it settles
register(token, device, base, id, orderSeq, listed, postResult) ==
  LET check == checkIsRegistered(id, listed)
      get == FetchArgs(token, device, base, LIST_MY_RESTAURANT, NoOptions)
      post == FetchArgs(token, device, base, REGISTER_MY_RESTAURANT,
                        RegisterOptions(id, orderSeq))
  IN IF check.outcome = "rejected"
     THEN [sent |-> <<get>>, got |-> <<listed>>, settled |-> check]
     ELSE IF check.value.b
     THEN [sent |-> <<get>>, got |-> <<listed>>,
           settled |-> Rejected("Restaurant is already registered")]
     ELSE [sent |-> <<get, post>>, got |-> <<listed, postResult>>,
           settled |-> posted(postResult, "Failed to register restaurant")]

\* Mutant: the deletion is posted whether the restaurant is registered or not
unregister_PostsUnchecked(token, device, base, id, listed, postResult) ==
  LET check == checkIsRegistered(id, listed)
      get == FetchArgs(token, device, base, LIST_MY_RESTAURANT, NoOptions)
      post == FetchArgs(token, device, base, DELETE_MY_RESTAURANT,
                        UnregisterOptions(id))
  IN IF check.outcome = "rejected"
     THEN [sent |-> <<get>>, got |-> <<listed>>, settled |-> check]
     ELSE [sent |-> <<get, post>>, got |-> <<listed, postResult>>,
           settled |-> posted(postResult, "Failed to unregister restaurant")]

unregister(token, device, base, id, listed, postResult) ==
  LET check == checkIsRegistered(id, listed)
      get == FetchArgs(token, device, base, LIST_MY_RESTAURANT, NoOptions)
      post == FetchArgs(token, device, base, DELETE_MY_RESTAURANT,
                        UnregisterOptions(id))
  IN IF check.outcome = "rejected"
     THEN [sent |-> <<get>>, got |-> <<listed>>, settled |-> check]
     ELSE IF ~check.value.b
     THEN [sent |-> <<get>>, got |-> <<listed>>,
           settled |-> Rejected("Restaurant is not registered")]
     ELSE [sent |-> <<get, post>>, got |-> <<listed, postResult>>,
           settled |-> posted(postResult, "Failed to unregister restaurant")]

Register ==
  \E id \in RestaurantIds, orderSeq \in OrderSeqs,
     listed \in JsonOutcomes(RegisteredBodies), postResult \in PostOutcomes :
    LET r == register(accessToken, deviceId, baseUrl, id, orderSeq, listed,
                      postResult)
    IN /\ op.name = "idle"
       /\ op' = Ran("register", [id |-> id], r.settled, 0)
       /\ sent' = r.sent
       /\ got' = r.got
       /\ UNCHANGED <<accessToken, deviceId, baseUrl, hist,
                    transport, concurrent, automatic>>

Unregister ==
  \E id \in RestaurantIds,
     listed \in JsonOutcomes(RegisteredBodies), postResult \in PostOutcomes :
    LET r == unregister(accessToken, deviceId, baseUrl, id, listed, postResult)
    IN /\ op.name = "idle"
       /\ op' = Ran("unregister", [id |-> id], r.settled, 0)
       /\ sent' = r.sent
       /\ got' = r.got
       /\ UNCHANGED <<accessToken, deviceId, baseUrl, hist,
                    transport, concurrent, automatic>>

----------------------------------------------------------------------------
(* WelstoryRestaurant.listMealTimes                                        *)

\* The callback of data.map: time.code throws on a null entry
MealTimeThrown(time) ==
  IF time.t \in {"null", "undefined"} THEN "TypeError" ELSE "none"

MealTime(time) ==
  Obj([id |-> Prop(time, "code"), name |-> Prop(time, "codeNm")])

\* response?.data?.map?.(...) ?? []
listMealTimes(fetched) ==
  LET response == JsonOrError(fetched)
      data == Prop(response, "data")
  IN IF response.t = "Error" THEN Rejected("Failed to list meal times")
     ELSE IF data.t # "array" THEN Resolved(Arr(<<>>))
     ELSE MapOrThrow([i \in 1..Len(data.a) |-> MealTimeThrown(data.a[i])],
                     [i \in 1..Len(data.a) |-> MealTime(data.a[i])])

MealTimeEntries ==
  {Obj([code |-> Str("1"), codeNm |-> Str("Breakfast")]),
   Obj([code |-> Str("2")]),
   Null}

MealTimeBodies ==
  {NotJson, Json(Obj(EmptyObj)), Json(Obj([data |-> Null]))}
    \cup {Json(Obj([data |-> Arr(l)])) : l \in Lists(MealTimeEntries)}

\* Cookie: cafeteriaActiveId=<restaurant id>
CookieOptions(id) == Options("GET", "Cookie" :> id, Undefined)

ListMealTimes ==
  \E id \in RestaurantIds, fetched \in JsonOutcomes(MealTimeBodies) :
    /\ op.name = "idle"
    /\ op' = Ran("listMealTimes", [id |-> id], listMealTimes(fetched), 0)
    /\ sent' = <<FetchArgs(accessToken, deviceId, baseUrl, LIST_MEAL_TIME,
                           CookieOptions(id))>>
    /\ got' = <<fetched>>
    /\ UNCHANGED <<accessToken, deviceId, baseUrl, hist,
                    transport, concurrent, automatic>>

----------------------------------------------------------------------------
(* WelstoryRestaurant.listMeal                                             *)

isValidMealData(value) ==
  /\ value.t = "object"
  /\ IsString(Prop(value, "hallNo"))
  /\ IsString(Prop(value, "menuName"))
  /\ IsString(Prop(value, "courseTxt"))
  /\ IsString(Prop(value, "menuCourseType"))
  /\ IsString(Prop(value, "photoUrl"))
  /\ IsString(Prop(value, "photoCd"))

MealThrown(meal) ==
  IF isValidMealData(meal) THEN "none" ELSE "Invalid meal data format"

\* a ?? null
OrNull(v) == IF v.t \in {"null", "undefined"} THEN Null ELSE v

WelstoryMeal(restaurantId, date, mealTimeId, meal) ==
  Obj([restaurant     |-> Str(restaurantId),
       hallNo         |-> Prop(meal, "hallNo"),
       date           |-> Num(date),
       mealTimeId     |-> Str(mealTimeId),
       name           |-> Prop(meal, "menuName"),
       menuCourseName |-> Prop(meal, "courseTxt"),
       menuCourseType |-> Prop(meal, "menuCourseType"),
       setName        |-> OrNull(Prop(meal, "setMenuName")),
       subMenuTxt     |-> OrNull(Prop(meal, "subMenuTxt")),
       photoUrl       |-> Str(Prop(meal, "photoUrl").s \o Prop(meal, "photoCd").s)])

\* Mutant: a missing mealList degrades to the empty list
listMeal_EmptyOnMissing(restaurantId, date, mealTimeId, fetched) ==
  LET response == JsonOrError(fetched)
      mealList == Prop(Prop(response, "data"), "mealList")
      Made(meal) == WelstoryMeal(restaurantId, date, mealTimeId, meal)
  IN IF response.t = "Error" THEN Rejected("Failed to list meal")
     ELSE IF mealList.t # "array" THEN Resolved(Arr(<<>>))
     ELSE MapOrThrow([i \in 1..Len(mealList.a) |-> MealThrown(mealList.a[i])],
                     [i \in 1..Len(mealList.a) |-> Made(mealList.a[i])])

\* Mutant: elements that fail the validation are skipped
listMeal_SkipsInvalid(restaurantId, date, mealTimeId, fetched) ==
  LET response == JsonOrError(fetched)
      mealList == Prop(Prop(response, "data"), "mealList")
      Made(meal) == WelstoryMeal(restaurantId, date, mealTimeId, meal)
  IN IF response.t = "Error" THEN Rejected("Failed to list meal")
     ELSE IF mealList.t # "array" THEN Rejected("TypeError")
     ELSE LET valid == SelectSeq(mealList.a, isValidMealData)
          IN Resolved(Arr([i \in 1..Len(valid) |-> Made(valid[i])]))

\* response.data.mealList.map(...): no fallback for a missing list
listMeal(restaurantId, date, mealTimeId, fetched) ==
  LET response == JsonOrError(fetched)
      mealList == Prop(Prop(response, "data"), "mealList")
      Made(meal) == WelstoryMeal(restaurantId, date, mealTimeId, meal)
  IN IF response.t = "Error" THEN Rejected("Failed to list meal")
     ELSE IF mealList.t # "array" THEN Rejected("TypeError")
     ELSE MapOrThrow([i \in 1..Len(mealList.a) |-> MealThrown(mealList.a[i])],
                     [i \in 1..Len(mealList.a) |-> Made(mealList.a[i])])

\* The earlier variant of listMeal kept in WelstoryRestaurant.ts: the field
\* checks are inline, so meal.hallNo throws on a null element
MealThrown_early(meal) ==
  IF meal.t \in {"null", "undefined"} THEN "TypeError"
  ELSE IF \/ ~IsString(Prop(meal, "hallNo"))
          \/ ~IsString(Prop(meal, "menuName"))
          \/ ~IsString(Prop(meal, "courseTxt"))
          \/ ~IsString(Prop(meal, "menuCourseType"))
          \/ ~IsString(Prop(meal, "photoUrl"))
          \/ ~IsString(Prop(meal, "photoCd"))
  THEN "Invalid restaurant data format"
  ELSE "none"

\* ... and setMenuName, subMenuTxt are passed on as they are
WelstoryMeal_early(restaurantId, date, mealTimeId, meal) ==
  Obj([restaurant     |-> Str(restaurantId),
       hallNo         |-> Prop(meal, "hallNo"),
       date           |-> Num(date),
       mealTimeId     |-> Str(mealTimeId),
       name           |-> Prop(meal, "menuName"),
       menuCourseName |-> Prop(meal, "courseTxt"),
       menuCourseType |-> Prop(meal, "menuCourseType"),
       setName        |-> Prop(meal, "setMenuName"),
       subMenuTxt     |-> Prop(meal, "subMenuTxt"),
       photoUrl       |-> Str(Prop(meal, "photoUrl").s \o Prop(meal, "photoCd").s)])

listMeal_early(restaurantId, date, mealTimeId, fetched) ==
  LET response == JsonOrError(fetched)
      mealList == Prop(Prop(response, "data"), "mealList")
      Made(meal) == WelstoryMeal_early(restaurantId, date, mealTimeId, meal)
  IN IF response.t = "Error" THEN Rejected("Failed to list meal")
     ELSE IF mealList.t # "array" THEN Rejected("TypeError")
     ELSE MapOrThrow([i \in 1..Len(mealList.a) |-> MealThrown_early(mealList.a[i])],
                     [i \in 1..Len(mealList.a) |-> Made(mealList.a[i])])

\* The variants of a class the repository holds: the one with the type
\* guards and typed responses, and the one before it
Variants == {"typed", "early"}

RawMeal(name) ==
  [hallNo |-> Str("E5"), menuName |-> Str(name), courseTxt |-> Str("Korean"),
   menuCourseType |-> Str("AA"), photoUrl |-> Str("http://img/"),
   photoCd |-> Str("p1.jpg")]

MealEntries ==
  {Obj(RawMeal("bibimbap")),
   Obj(RawMeal("set") @@ [setMenuName |-> Str("Set A"), subMenuTxt |-> Str("rice,soup")]),
   Obj([hallNo |-> Str("E5"), menuName |-> Str("nophoto"), courseTxt |-> Str("Korean"),
        menuCourseType |-> Str("AA"), photoUrl |-> Str("http://img/")]),
   Null}

MealBodies ==
  {NotJson, Json(Null), Json(Obj(EmptyObj)), Json(Obj([data |-> Obj(EmptyObj)]))}
    \cup {Json(Obj([data |-> Obj([mealList |-> Arr(l)])])) : l \in Lists(MealEntries)}

Dates == {20250814}

MealTimeIds == {"1", "2"}

ListMeal ==
  \E id \in RestaurantIds, date \in Dates, mealTimeId \in MealTimeIds,
     fetched \in JsonOutcomes(MealBodies), variant \in Variants :
    /\ op.name = "idle"
    /\ op' = Ran("listMeal",
                [id |-> id, date |-> date, mealTimeId |-> mealTimeId,
                 variant |-> variant],
                IF variant = "typed"
                THEN listMeal(id, date, mealTimeId, fetched)
                ELSE listMeal_early(id, date, mealTimeId, fetched), 0)
    /\ sent' = <<FetchArgs(accessToken, deviceId, baseUrl,
                           LIST_MEAL(date, mealTimeId, id), NoOptions)>>
    /\ got' = <<fetched>>
    /\ UNCHANGED <<accessToken, deviceId, baseUrl, hist,
                    transport, concurrent, automatic>>

----------------------------------------------------------------------------
(* WelstoryMeal.listMealMenus.  The decimal strings of a nutrient entry    *)
(* are sequences of characters.                                            *)

Digit(c) ==
  CASE c = "0" -> 0 [] c = "1" -> 1 [] c = "2" -> 2 [] c = "3" -> 3
    [] c = "4" -> 4 [] c = "5" -> 5 [] c = "6" -> 6 [] c = "7" -> 7
    [] c = "8" -> 8 [] c = "9" -> 9 [] OTHER -> -1

\* How many digits stand in s from position i on
RECURSIVE DigitsLen(_, _)
DigitsLen(s, i) ==
  IF i <= Len(s) /\ Digit(s[i]) >= 0 THEN 1 + DigitsLen(s, i + 1) ELSE 0

\* The number the k digits from position i on spell
RECURSIVE DigitsVal(_, _, _)
DigitsVal(s, i, k) ==
  IF k = 0 THEN 0 ELSE DigitsVal(s, i, k - 1) * 10 + Digit(s[i + k - 1])

RECURSIVE Pow10(_)
Pow10(k) == IF k = 0 THEN 1 ELSE 10 * Pow10(k - 1)

\* parseFloat on a string: the longest decimal prefix, NaN without a digit
ParseDecimal(s) ==
  LET neg == Len(s) > 0 /\ s[1] = "-"
      start == IF neg THEN 2 ELSE 1
      ni == DigitsLen(s, start)
      dot == start + ni <= Len(s) /\ s[start + ni] = "."
      nf == IF dot THEN DigitsLen(s, start + ni + 1) ELSE 0
      mag == DigitsVal(s, start, ni) * Pow10(nf)
               + DigitsVal(s, start + ni + 1, nf)
  IN IF ni + nf = 0 THEN NaN
     ELSE Decimal(IF neg THEN 0 - mag ELSE mag, Pow10(nf))

\* parseFloat(v)
parseFloat(v) ==
  IF v.t = "string" THEN ParseDecimal(v.s)
  ELSE IF v.t = "number" THEN v
  ELSE NaN

\* kcal.replace(/,/g, '')
StripCommas(s) == SelectSeq(s, LAMBDA c : c # ",")

\* menu.kcal.replace throws unless kcal is a string
MenuThrown(menu) ==
  IF menu.t \in {"null", "undefined"} THEN "TypeError"
  ELSE IF ~IsString(Prop(menu, "kcal")) THEN "TypeError"
  ELSE "none"

WelstoryMealMenu(menu) ==
  Obj([name         |-> Prop(menu, "menuName"),
       isMain       |-> Bool(Prop(menu, "typicalMenu") = Str("Y")),
       calorie      |-> ParseDecimal(StripCommas(Prop(menu, "kcal").s)),
       carbohydrate |-> parseFloat(Prop(menu, "totCho")),
       sugar        |-> parseFloat(Prop(menu, "totSugar")),
       fiber        |-> parseFloat(Prop(menu, "totFib")),
       fat          |-> parseFloat(Prop(menu, "totFat")),
       protein      |-> parseFloat(Prop(menu, "totProtein"))])

listMealMenus(fetched) ==
  LET response == JsonOrError(fetched)
      data == Prop(response, "data")
  IN IF response.t = "Error" THEN Rejected("Failed to list meal menu")
     ELSE IF data.t # "array" THEN Resolved(Arr(<<>>))
     ELSE MapOrThrow([i \in 1..Len(data.a) |-> MenuThrown(data.a[i])],
                     [i \in 1..Len(data.a) |-> WelstoryMealMenu(data.a[i])])

\* The variant of listMealMenus in WelstoryMeal.ts: calorie is menu.kcal as
\* the service sent it, so only a null entry throws
MenuThrown_early(menu) ==
  IF menu.t \in {"null", "undefined"} THEN "TypeError" ELSE "none"

WelstoryMealMenu_early(menu) ==
  Obj([name         |-> Prop(menu, "menuName"),
       isMain       |-> Bool(Prop(menu, "typicalMenu") = Str("Y")),
       calorie      |-> Prop(menu, "kcal"),
       carbohydrate |-> parseFloat(Prop(menu, "totCho")),
       sugar        |-> parseFloat(Prop(menu, "totSugar")),
       fiber        |-> parseFloat(Prop(menu, "totFib")),
       fat          |-> parseFloat(Prop(menu, "totFat")),
       protein      |-> parseFloat(Prop(menu, "totProtein"))])

listMealMenus_early(fetched) ==
  LET response == JsonOrError(fetched)
      data == Prop(response, "data")
  IN IF response.t = "Error" THEN Rejected("Failed to list meal menu")
     ELSE IF data.t # "array" THEN Resolved(Arr(<<>>))
     ELSE MapOrThrow([i \in 1..Len(data.a) |-> MenuThrown_early(data.a[i])],
                     [i \in 1..Len(data.a) |-> WelstoryMealMenu_early(data.a[i])])

NutrientEntries ==
  {Obj([menuName |-> Str("rice"), typicalMenu |-> Str("Y"),
        kcal |-> Str(<<"1", ",", "2", "3", "4">>),
        totCho |-> Str(<<"1", "0", ".", "5">>), totSugar |-> Str(<<"0">>),
        totFib |-> Str(<<"2", ".", "5", "0">>), totFat |-> Str(<<"3">>),
        totProtein |-> Str(<<"7", ".", "2", "5">>)]),
   Obj([menuName |-> Str("soup"), typicalMenu |-> Str("N"),
        kcal |-> Str(<<"8", "0">>),
        totCho |-> Str(<<"-">>), totSugar |-> Str(<<>>),
        totFib |-> Str(<<"1", "g">>), totFat |-> Num(3)]),
   Obj([menuName |-> Str("nokcal"), typicalMenu |-> Str("Y")]),
   Null}

NutrientBodies ==
  {NotJson, Json(Obj(EmptyObj))}
    \cup {Json(Obj([data |-> Arr(l)])) : l \in Lists(NutrientEntries)}

ListMealMenus ==
  \E id \in RestaurantIds, date \in Dates, fetched \in JsonOutcomes(NutrientBodies),
     variant \in Variants :
    /\ op.name = "idle"
    /\ op' = Ran("listMealMenus", [id |-> id, date |-> date, variant |-> variant],
                IF variant = "typed" THEN listMealMenus(fetched)
                                     ELSE listMealMenus_early(fetched), 0)
    /\ sent' = <<FetchArgs(accessToken, deviceId, baseUrl,
                           LIST_MEAL_NUTRIENT(date, "1", "E5", "AA", id),
                           CookieOptions(id))>>
    /\ got' = <<fetched>>
    /\ UNCHANGED <<accessToken, deviceId, baseUrl, hist,
                    transport, concurrent, automatic>>

----------------------------------------------------------------------------
(* The constructor, and the client's life.                                 *)

----------------------------------------------------------------------------
(* State the client operations above leave alone.                          *)

Pending == [outcome |-> "pending", value |-> Undefined, error |-> "none"]

\* The callers that do not await each other
Callers == {1, 2}

NotCalled ==
  [name |-> "none", pc |-> "none", id |-> "", sent |-> <<>>, got |-> <<>>,
   settled |-> Pending, issuedAt |-> 0, settledAt |-> 0]

NoCalls == [c \in Callers |-> NotCalled]

\* automaticTokenRefresh of WelstoryClientOptions / WelstoryClientLoginOptions
AutomaticTokenRefresh == {Bool(TRUE), Bool(FALSE), Undefined}
OptionUnset == [client |-> Undefined, login |-> Undefined]

StartMs == 100000

\* The event loop is followed for MaxTicks steps of TickMs milliseconds
MaxTicks == 3
TickMs == 60000

----------------------------------------------------------------------------
(* universalFetch and xhrFetch (utils.ts).                                 *)

\* What the process offers: globalThis.fetch, require, require('undici'),
\* XMLHttpRequest, require('https') / require('http') / require('url')
Envs ==
  {e \in [fetch : BOOLEAN, require : BOOLEAN, undici : BOOLEAN,
          xhr : BOOLEAN, http : BOOLEAN] :
     ~e.require => (~e.undici /\ ~e.http)}

\* Node.js 18+ with the package's dependencies installed
NodeEnv ==
  [fetch |-> TRUE, require |-> TRUE, undici |-> TRUE, xhr |-> FALSE,
   http |-> TRUE]

\* resolve and reject of a promise that has settled do nothing
Settle(promise, settled) ==
  IF promise.outcome = "pending" THEN settled ELSE promise

XhrUnsent == [readyState |-> 0, fate |-> "none", status |-> 0, events |-> {}]

\* How a request on an XMLHttpRequest ends, and the events it then fires
XhrFates ==
  {[fate |-> "load", status |-> st] : st \in Statuses}
    \cup {[fate |-> "error", status |-> 0], [fate |-> "timeout", status |-> 0]}

XhrSent(end) ==
  [readyState |-> 1, fate |-> end.fate, status |-> end.status,
   events |-> {"readystatechange"}
                \cup (IF end.fate = "load" THEN {} ELSE {end.fate})]

NetIdle ==
  [pc |-> "idle", tried |-> <<>>, promise |-> Pending, xhr |-> XhrUnsent]

NoClient == "No HTTP client available"
NoClientError(message) == "No HTTP client available. Error: " \o message

\* The first strategy, from the one numbered from on, whose guard holds and
\* whose primitive loads
Strategy(e, from) ==
  IF from <= 1 /\ e.fetch THEN "fetch"
  ELSE IF from <= 2 /\ e.require /\ e.undici THEN "undici"
  ELSE IF from <= 3 /\ e.xhr THEN "xhr"
  ELSE IF e.require /\ e.http THEN "http"
  ELSE "none"

\* universalFetch from strategy from on: the request goes to the primitive,
\* or the call throws
universalFetch(n, e, from, end) ==
  LET primitive == Strategy(e, from)
  IN IF primitive = "none"
     THEN [n EXCEPT !.pc = "done",
                    !.promise = Rejected(IF e.require
                                         THEN NoClientError("Cannot find module")
                                         ELSE NoClient)]
     ELSE [n EXCEPT !.pc = primitive,
                    !.tried = Append(@, primitive),
                    !.xhr = IF primitive = "xhr" THEN XhrSent(end) ELSE @]

\* What a fetch primitive settles with
HttpOutcomes ==
  {TransportError} \cup {Response(st, EmptyObj, NotJson) : st \in Statuses}

UniversalFetch ==
  \E end \in XhrFates :
    /\ net.pc = "idle"
    /\ net' = universalFetch(net, env, 1, end)
    /\ UNCHANGED <<accessToken, deviceId, baseUrl, op, sent, got, hist,
                   env, concurrent, automatic>>

\* await globalThis.fetch(url, fetchOptions): a rejection propagates
FetchSettles ==
  \E fetched \in HttpOutcomes :
    /\ net.pc = "fetch"
    /\ net' = [net EXCEPT
                 !.pc = "done",
                 !.promise = IF fetched.t = "error"
                             THEN Rejected(fetched.message)
                             ELSE Resolved(fetched)]
    /\ UNCHANGED <<accessToken, deviceId, baseUrl, op, sent, got, hist,
                   env, concurrent, automatic>>

\* await fetch(url, fetchOptions) of undici inside try: the catch swallows
\* a rejection and the function goes on to strategy 3
UndiciSettles ==
  \E fetched \in HttpOutcomes, end \in XhrFates :
    /\ net.pc = "undici"
    /\ net' = IF fetched.t = "error"
              THEN universalFetch(net, env, 3, end)
              ELSE [net EXCEPT !.pc = "done", !.promise = Resolved(fetched)]
    /\ UNCHANGED <<accessToken, deviceId, baseUrl, op, sent, got, hist,
                   env, concurrent, automatic>>

\* xhr.onreadystatechange: resolves whenever readyState is 4
XhrReadyStateChange ==
  \E readyState \in 2..4 :
    /\ "readystatechange" \in net.xhr.events
    /\ readyState > net.xhr.readyState
    /\ net' =
         IF readyState = 4
         THEN [net EXCEPT
                 !.xhr.readyState = 4,
                 !.xhr.events = @ \ {"readystatechange"},
                 !.pc = "done",
                 !.promise = Settle(@, Resolved(Response(net.xhr.status,
                                                         EmptyObj, NotJson)))]
         ELSE [net EXCEPT !.xhr.readyState = readyState]
    /\ UNCHANGED <<accessToken, deviceId, baseUrl, op, sent, got, hist,
                   env, concurrent, automatic>>

\* xhr.onerror
XhrError ==
  /\ "error" \in net.xhr.events
  /\ net' = [net EXCEPT
               !.xhr.events = @ \ {"error"},
               !.pc = "done",
               !.promise = Settle(@, Rejected("Network request failed"))]
  /\ UNCHANGED <<accessToken, deviceId, baseUrl, op, sent, got, hist,
                   env, concurrent, automatic>>

\* xhr.ontimeout
XhrTimeout ==
  /\ "timeout" \in net.xhr.events
  /\ net' = [net EXCEPT
               !.xhr.events = @ \ {"timeout"},
               !.pc = "done",
               !.promise = Settle(@, Rejected("Network request timed out"))]
  /\ UNCHANGED <<accessToken, deviceId, baseUrl, op, sent, got, hist,
                   env, concurrent, automatic>>

\* The promise around client.request of http / https, inside try: the catch
\* rethrows a rejection as the missing-client error
HttpSettles ==
  \E fetched \in HttpOutcomes :
    /\ net.pc = "http"
    /\ net' = [net EXCEPT
                 !.pc = "done",
                 !.promise = IF fetched.t = "error"
                             THEN Rejected(NoClientError(fetched.message))
                             ELSE Resolved(fetched)]
    /\ UNCHANGED <<accessToken, deviceId, baseUrl, op, sent, got, hist,
                   env, concurrent, automatic>>

\* The caller takes the settled promise and drops the XMLHttpRequest
FetchReturns ==
  /\ net.pc = "done"
  /\ net' = NetIdle
  /\ UNCHANGED <<accessToken, deviceId, baseUrl, op, sent, got, hist,
                   env, concurrent, automatic>>

----------------------------------------------------------------------------
(* Callers that do not await each other: every call runs up to its next    *)
(* await in one step, and the steps of the calls interleave.               *)

elsewhere == <<deviceId, baseUrl, op, sent, got, transport, automatic>>

\* The position of a call among the calls made so far
Issued == Cardinality({c \in Callers : calls[c].name # "none"}) + 1

\* The position of a call among the calls that ran to their end
Turn == Cardinality({c \in Callers : calls[c].settledAt > 0}) + 1

Called(name, id, pc, fetchArgs) ==
  [name |-> name, pc |-> pc, id |-> id, sent |-> <<fetchArgs>>, got |-> <<>>,
   settled |-> Pending, issuedAt |-> Issued, settledAt |-> 0]

\* The tokens the service hands out while the calls overlap
SessionTokens == {"opaque", "jwt.exp220"}

ConcurrentLoginOutcomes ==
  {fetched \in LoginOutcomes :
     fetched.t = "response" =>
       /\ fetched.status = 200
       /\ \A h \in DOMAIN fetched.headers :
            fetched.headers[h] \in SessionTokens}

ConcurrentRefreshOutcomes ==
  {fetched \in RefreshOutcomes :
     fetched.t = "response" =>
       /\ fetched.status \in ListStatuses
       /\ fetched.body.json
       /\ fetched.body.v.t = "object"
       /\ Prop(fetched.body.v, "data").t \in {"undefined", "string"}
       /\ IsString(Prop(fetched.body.v, "data")) =>
            Prop(fetched.body.v, "data").s \in SessionTokens}

\* What the service answers to the list GET while it holds the list listed
ListOutcomes(listed) ==
  {TransportError}
    \cup {Response(200, EmptyObj, Json(Obj([data |-> Arr(l)]))) :
            l \in {m \in Lists({Obj([restaurantId |-> Str(id)]) : id \in listed}) :
                     /\ Len(m) = Cardinality(listed)
                     /\ \A i, j \in 1..Len(m) : m[i] = m[j] => i = j}}

CallLogin(c) ==
  /\ calls[c].name = "none"
  /\ calls' = [calls EXCEPT ![c] =
                 Called("login", "", "fetching",
                        FetchArgs(accessToken, deviceId, baseUrl, LOGIN,
                                  LoginOptions))]
  /\ UNCHANGED <<accessToken, hist, registered, elsewhere>>

CallRefreshSession(c) ==
  /\ calls[c].name = "none"
  /\ calls' = [calls EXCEPT ![c] =
                 Called("refreshSession", "", "fetching",
                        FetchArgs(accessToken, deviceId, baseUrl,
                                  SESSION_REFRESH, NoOptions))]
  /\ UNCHANGED <<accessToken, hist, registered, elsewhere>>

CallRegister(c) ==
  \E id \in RestaurantIds :
    /\ calls[c].name = "none"
    /\ calls' = [calls EXCEPT ![c] =
                   Called("register", id, "listing",
                          FetchArgs(accessToken, deviceId, baseUrl,
                                    LIST_MY_RESTAURANT, NoOptions))]
    /\ UNCHANGED <<accessToken, hist, registered, elsewhere>>

CallUnregister(c) ==
  \E id \in RestaurantIds :
    /\ calls[c].name = "none"
    /\ calls' = [calls EXCEPT ![c] =
                   Called("unregister", id, "listing",
                          FetchArgs(accessToken, deviceId, baseUrl,
                                    LIST_MY_RESTAURANT, NoOptions))]
    /\ UNCHANGED <<accessToken, hist, registered, elsewhere>>

\* login from the response on: it writes the token it finds
LoginAnswered(c) ==
  \E fetched \in ConcurrentLoginOutcomes :
    LET r == login(accessToken, fetched)
    IN /\ calls[c].name = "login"
       /\ calls[c].pc = "fetching"
       /\ accessToken' = r.token
       /\ calls' = [calls EXCEPT ![c].pc = "done",
                                 ![c].got = <<fetched>>,
                                 ![c].settled = r.settled,
                                 ![c].settledAt = Turn]
       /\ hist' = IF r.settled.outcome = "resolved"
                  THEN [loginToken |-> r.token, authenticated |-> TRUE]
                  ELSE hist
       /\ UNCHANGED <<registered, elsewhere>>

\* refreshSession from the parsed response on
RefreshSessionAnswered(c) ==
  \E fetched \in ConcurrentRefreshOutcomes, now \in ClockValues :
    LET r == refreshSession(accessToken, fetched, now)
    IN /\ calls[c].name = "refreshSession"
       /\ calls[c].pc = "fetching"
       /\ accessToken' = r.token
       /\ calls' = [calls EXCEPT ![c].pc = "done",
                                 ![c].got = <<fetched>>,
                                 ![c].settled = r.settled,
                                 ![c].settledAt = Turn]
       /\ hist' = IF r.settled.outcome = "resolved"
                  THEN [hist EXCEPT !.authenticated = TRUE]
                  ELSE hist
       /\ UNCHANGED <<registered, elsewhere>>

\* register and unregister from the answer to the list GET on: the call
\* throws, or it issues what follows the GET
Listed(c) ==
  \E listed \in ListOutcomes(registered), orderSeq \in OrderSeqs :
    LET id == calls[c].id
        r == IF calls[c].name = "register"
             THEN register(accessToken, deviceId, baseUrl, id, orderSeq,
                           listed, TransportError)
             ELSE unregister(accessToken, deviceId, baseUrl, id, listed,
                             TransportError)
        posts == Len(r.sent) > 1
    IN /\ calls[c].name \in {"register", "unregister"}
       /\ calls[c].pc = "listing"
       /\ calls' = [calls EXCEPT
                      ![c].pc = IF posts THEN "posting" ELSE "done",
                      ![c].sent = @ \o SubSeq(r.sent, 2, Len(r.sent)),
                      ![c].got = <<listed>>,
                      ![c].settled = IF posts THEN Pending ELSE r.settled,
                      ![c].settledAt = IF posts THEN 0 ELSE Turn]
       /\ UNCHANGED <<accessToken, hist, registered, elsewhere>>

\* register and unregister from the answer to the POST on; the service has
\* applied a POST it answers with an ok status
Posted(c) ==
  \E postResult \in PostOutcomes :
    LET id == calls[c].id
        applied == postResult.t = "response" /\ postResult.ok
    IN /\ calls[c].pc = "posting"
       /\ calls' = [calls EXCEPT
                      ![c].pc = "done",
                      ![c].got = Append(@, postResult),
                      ![c].settled =
                        posted(postResult,
                               IF calls[c].name = "register"
                               THEN "Failed to register restaurant"
                               ELSE "Failed to unregister restaurant"),
                      ![c].settledAt = Turn]
       /\ registered' = IF ~applied THEN registered
                        ELSE IF calls[c].name = "register"
                        THEN registered \cup {id}
                        ELSE registered \ {id}
       /\ UNCHANGED <<accessToken, hist, elsewhere>>

----------------------------------------------------------------------------
(* The passing of time.                                                    *)

\* login with automaticTokenRefresh of any value
LoginAutomatic ==
  \E automaticTokenRefresh \in AutomaticTokenRefresh :
    LoginWith(automaticTokenRefresh)

\* Time passes and the event loop runs the timers that are due: neither the
\* constructor nor login has set one
Tick ==
  /\ clock < StartMs + MaxTicks * TickMs
  /\ clock' = clock + TickMs
  /\ UNCHANGED <<accessToken, deviceId, baseUrl, op, sent, got, hist,
                 transport, concurrent, refreshOption>>

----------------------------------------------------------------------------
(* The specifications.                                                     *)

DeviceIds == {"device-A", "device-B"}

DefaultBaseUrl == "https://welplus.welstory.com/"

\* A client just constructed, nothing sent yet
Constructed ==
  /\ accessToken = Undefined
  /\ deviceId \in DeviceIds
  /\ baseUrl = DefaultBaseUrl
  /\ op = Idle
  /\ sent = <<>>
  /\ got = <<>>
  /\ hist = [loginToken |-> Undefined, authenticated |-> FALSE]

Init ==
  /\ Constructed
  /\ env = NodeEnv
  /\ net = NetIdle
  /\ calls = NoCalls
  /\ registered = {}
  /\ refreshOption = OptionUnset
  /\ clock = StartMs

\* The caller takes the settled promise; the client is idle again
Return ==
  /\ op.name # "idle"
  /\ op' = Idle
  /\ sent' = <<>>
  /\ got' = <<>>
  /\ UNCHANGED <<accessToken, deviceId, baseUrl, hist,
                    transport, concurrent, automatic>>

Next ==
  \/ Login
  \/ RefreshSession
  \/ Request
  \/ SearchRestaurant
  \/ CheckIsRegistered
  \/ Register
  \/ Unregister
  \/ ListMealTimes
  \/ ListMeal
  \/ ListMealMenus
  \/ Return

Spec == Init /\ [][Next]_vars

\* universalFetch called again and again in a process of any kind
TransportInit ==
  /\ Constructed
  /\ env \in Envs
  /\ net = NetIdle
  /\ calls = NoCalls
  /\ registered = {}
  /\ refreshOption = OptionUnset
  /\ clock = StartMs

TransportNext ==
  \/ UniversalFetch
  \/ FetchSettles
  \/ UndiciSettles
  \/ XhrReadyStateChange
  \/ XhrError
  \/ XhrTimeout
  \/ HttpSettles
  \/ FetchReturns

TransportSpec == TransportInit /\ [][TransportNext]_vars

\* Two callers on one client, the user's list in any state
ConcurrentInit ==
  /\ Constructed
  /\ env = NodeEnv
  /\ net = NetIdle
  /\ calls = NoCalls
  /\ registered \in SUBSET RestaurantIds
  /\ refreshOption = OptionUnset
  /\ clock = StartMs

ConcurrentNext ==
  \E c \in Callers :
    \/ CallLogin(c)
    \/ CallRefreshSession(c)
    \/ CallRegister(c)
    \/ CallUnregister(c)
    \/ LoginAnswered(c)
    \/ RefreshSessionAnswered(c)
    \/ Listed(c)
    \/ Posted(c)

ConcurrentSpec == ConcurrentInit /\ [][ConcurrentNext]_vars

\* A client constructed with any automaticTokenRefresh, whose caller logs in
\* and never calls refreshSession, while time passes
AutomaticInit ==
  /\ Constructed
  /\ env = NodeEnv
  /\ net = NetIdle
  /\ calls = NoCalls
  /\ registered = {}
  /\ refreshOption \in [client : AutomaticTokenRefresh, login : {Undefined}]
  /\ clock = StartMs

AutomaticNext ==
  \/ LoginAutomatic
  \/ Return
  \/ Tick

\* Time does not stop, and a settled promise reaches its caller
AutomaticSpec ==
  /\ AutomaticInit
  /\ [][AutomaticNext]_vars
  /\ WF_vars(Tick)
  /\ WF_vars(Return)

----------------------------------------------------------------------------
(* Properties of login.                                                    *)

\* The response the call that just settled got to its first request
FirstResponse == got[1]

\* login has just settled on a response that carries an Authorization header
LoginGotHeader ==
  /\ op.name = "login"
  /\ FirstResponse.t = "response"
  /\ "authorization" \in DOMAIN FirstResponse.headers

\* login has just settled on a response without an Authorization header
LoginGotNoHeader ==
  /\ op.name = "login"
  /\ FirstResponse.t = "response"
  /\ "authorization" \notin DOMAIN FirstResponse.headers

(* C1 as stated: for every login response that carries an Authorization    *)
(* header, login stores exactly that header value as accessToken and       *)
(* returns the parsed JSON body of the response.                           *)
C1_LoginStoresAndReturnsBody ==
  LoginGotHeader =>
    /\ accessToken = Str(FirstResponse.headers["authorization"])
    /\ op.outcome = "resolved"
    /\ FirstResponse.body.json
    /\ op.value = FirstResponse.body.v

(* C1 as amended: for every login response that carries an Authorization   *)
(* header, login stores exactly that header value as accessToken; it       *)
(* returns the parsed body when the body is JSON, and rejects (the token   *)
(* already stored) when it is not.                                         *)
C1_LoginStoresTokenThenParses ==
  LoginGotHeader =>
    /\ accessToken = Str(FirstResponse.headers["authorization"])
    /\ IF FirstResponse.body.json
       THEN op.outcome = "resolved" /\ op.value = FirstResponse.body.v
       ELSE op.outcome = "rejected" /\ op.error = "SyntaxError"

C1_Witness ==
  /\ LoginGotHeader
  /\ FirstResponse.status = 200
  /\ FirstResponse.body.json
  /\ op.outcome = "resolved"
  /\ accessToken = Str("jwt.exp220")

(* C2: for every login response that has no Authorization header, login    *)
(* fails with the authentication error, whatever the HTTP status is.       *)
C2_LoginWithoutHeaderFails ==
  LoginGotNoHeader =>
    /\ op.outcome = "rejected"
    /\ op.error = "Login failed: No access token received"

C2_Witness ==
  /\ LoginGotNoHeader
  /\ FirstResponse.ok
  /\ FirstResponse.body.json
  /\ op.outcome = "rejected"

----------------------------------------------------------------------------
(* Properties of the headers of outgoing requests.                         *)

\* The header names, in lower case, that the caller of request passed
Supplied(call) ==
  IF call.name = "request" THEN {Lower(k) : k \in DOMAIN call.args.headers}
                           ELSE {}

\* What a request carries as Authorization when the client holds `token`
Bearer(token) == IF token = Undefined THEN {} ELSE {token.s}

(* C3 as stated: every outgoing request carries User-Agent: Welplus and    *)
(* X-Device-Id equal to the fixed device id, and every request issued      *)
(* after a successful login carries an Authorization header equal to the   *)
(* token that login returned.                                              *)
C3_RequestsCarryLoginToken ==
  [][/\ deviceId' = deviceId
     /\ \A i \in 1..Len(sent') :
          /\ WireValues(sent'[i].headers, "user-agent") = {"Welplus"}
          /\ WireValues(sent'[i].headers, "x-device-id") = {deviceId}
          /\ hist.loginToken # Undefined =>
               WireValues(sent'[i].headers, "authorization")
                 = {hist.loginToken.s}]_vars

(* C3 as amended: the device id never changes; every outgoing request      *)
(* carries User-Agent: Welplus, X-Device-Id equal to the fixed device id   *)
(* and, when a token is held, Authorization equal to the token held when   *)
(* the request is issued, each unless the caller of request passes a       *)
(* header of that name itself; the token held after a login that resolved  *)
(* is the one its response carried, until a later login or refreshSession  *)
(* replaces it.                                                            *)
C3_RequestsCarryHeldToken ==
  [][/\ deviceId' = deviceId
     /\ \A i \in 1..Len(sent') :
          /\ "user-agent" \notin Supplied(op') =>
               WireValues(sent'[i].headers, "user-agent") = {"Welplus"}
          /\ "x-device-id" \notin Supplied(op') =>
               WireValues(sent'[i].headers, "x-device-id") = {deviceId}
          /\ "authorization" \notin Supplied(op') =>
               WireValues(sent'[i].headers, "authorization")
                 = Bearer(accessToken)
     /\ (op'.name = "login" /\ op'.outcome = "resolved") =>
          accessToken' = Str(got'[1].headers["authorization"])]_vars

C3_Witness ==
  /\ op.name = "searchRestaurant"
  /\ hist.loginToken = Str("jwt.exp220")
  /\ accessToken = hist.loginToken
  /\ sent[1].headers["Authorization"] = "jwt.exp220"
  /\ sent[1].headers["X-Device-Id"] = deviceId
  /\ sent[1].headers["User-Agent"] = "Welplus"

----------------------------------------------------------------------------
(* Properties of the accessToken field.                                    *)

\* The response on which login, or refreshSession, writes accessToken
TokenArrives(call, fetched) ==
  /\ fetched.t = "response"
  /\ \/ /\ call.name = "login"
        /\ "authorization" \in DOMAIN fetched.headers
     \/ /\ call.name = "refreshSession"
        /\ fetched.ok
        /\ fetched.body.json
        /\ IsString(Prop(fetched.body.v, "data"))

(* C4 as stated: accessToken is absent in every state before the first     *)
(* successful login or refreshSession; once set, no later operation makes  *)
(* it absent again, and it is attached to all subsequent requests.         *)
C4_AbsentUntilSuccess ==
  [][/\ ~hist'.authenticated => accessToken' = Undefined
     /\ accessToken # Undefined => accessToken' # Undefined
     /\ accessToken # Undefined =>
          \A i \in 1..Len(sent') :
            WireValues(sent'[i].headers, "authorization") = {accessToken.s}]_vars

(* C4 as amended: accessToken is absent in every state before the first    *)
(* login response that carries an Authorization header or refreshSession   *)
(* response that is ok and carries a string token, whether or not that     *)
(* call then resolves; once set, no later operation makes it absent again, *)
(* and it is attached to every subsequent request whose caller passes no   *)
(* Authorization header of its own.                                        *)
C4_AbsentUntilTokenArrives ==
  [][/\ (accessToken = Undefined /\ accessToken' # Undefined) =>
          TokenArrives(op', got'[1])
     /\ accessToken # Undefined => accessToken' # Undefined
     /\ accessToken # Undefined =>
          \A i \in 1..Len(sent') :
            "authorization" \notin Supplied(op') =>
              WireValues(sent'[i].headers, "authorization") = {accessToken.s}]_vars

C4_Witness ==
  /\ op.name = "refreshSession"
  /\ op.outcome = "rejected"
  /\ ~hist.authenticated
  /\ accessToken # Undefined
  /\ WireValues(sent[1].headers, "authorization") = {accessToken.s}

\* The operations that only read the session
ReadOnlyOperations ==
  {"request", "searchRestaurant", "checkIsRegistered", "register",
   "unregister", "listMealTimes", "listMeal", "listMealMenus"}

(* C5: accessToken is written only by login and refreshSession: request,   *)
(* searchRestaurant, checkIsRegistered, register, unregister,              *)
(* listMealTimes, listMeal and listMealMenus leave accessToken, baseUrl    *)
(* and deviceId unchanged, whether they succeed or fail.                   *)
C5_OnlyLoginAndRefreshWrite ==
  [][/\ op'.name \in ReadOnlyOperations =>
          /\ accessToken' = accessToken
          /\ baseUrl' = baseUrl
          /\ deviceId' = deviceId
     /\ accessToken' # accessToken =>
          op'.name \in {"login", "refreshSession"}]_vars

C5_Witness ==
  /\ op.name = "checkIsRegistered"
  /\ op.outcome = "rejected"
  /\ accessToken = Str("jwt.exp220")
  /\ sent[1].headers["Authorization"] = "jwt.exp220"

(* C6: in every reachable state accessToken is either absent or a          *)
(* non-empty string, for every response to login (any Authorization value, *)
(* the empty string included) and to refreshSession (any string in the     *)
(* body's data field, the empty string included).                          *)
C6_TokenAbsentOrNonEmpty ==
  accessToken = Undefined \/ accessToken.s # ""

----------------------------------------------------------------------------
(* Properties of refreshSession.                                           *)

\* refreshSession has just settled on a response
RefreshGotResponse ==
  /\ op.name = "refreshSession"
  /\ FirstResponse.t = "response"

\* ... on an ok response whose body carries a string token
RefreshGotToken ==
  /\ RefreshGotResponse
  /\ FirstResponse.ok
  /\ FirstResponse.body.json
  /\ IsString(Prop(FirstResponse.body.v, "data"))

\* The exp claim of the token refreshSession got
RefreshedExp == Prop(decode(FirstResponse.body.v.o.data.s), "exp")

C8_RefreshRejectsInvalidToken ==
  (RefreshGotToken /\ RefreshedExp.t # "number") => op.outcome = "rejected"

----------------------------------------------------------------------------
(* Properties of register.                                                 *)

\* The registered-list response names restaurant `id`, so that
\* checkIsRegistered resolves true
ListsAsRegistered(fetched, id) ==
  /\ fetched.t = "response"
  /\ fetched.body.json
  /\ Prop(fetched.body.v, "data").t = "array"
  /\ LET entries == Prop(fetched.body.v, "data").a
     IN /\ \A i \in 1..Len(entries) : entries[i] # Null
        /\ \E i \in 1..Len(entries) :
             Prop(entries[i], "restaurantId") = Str(id)

(* C10: register() on a restaurant for which checkIsRegistered() resolves  *)
(* true fails with the already-registered error and issues no registration *)
(* POST.                                                                   *)
C10_RegisterTwiceConflicts ==
  (op.name = "register" /\ ListsAsRegistered(FirstResponse, op.args.id)) =>
    /\ op.outcome = "rejected"
    /\ op.error = "Restaurant is already registered"
    /\ \A i \in 1..Len(sent) : sent[i].method # "POST"

C10_Witness ==
  /\ op.name = "register"
  /\ ListsAsRegistered(FirstResponse, op.args.id)
  /\ Len(FirstResponse.body.v.o.data.a) = 2
  /\ op.outcome = "rejected"
  /\ Len(sent) = 1

----------------------------------------------------------------------------
(* Properties of unregister and checkIsRegistered.                         *)

\* The data entries of a registered-list response: none when data is no array
ListedEntries(fetched) ==
  IF Prop(fetched.body.v, "data").t = "array"
  THEN Prop(fetched.body.v, "data").a ELSE <<>>

\* Some entry of the list names restaurant `id`
Names(entries, id) ==
  \E i \in 1..Len(entries) :
    entries[i] # Null /\ Prop(entries[i], "restaurantId") = Str(id)

\* The registered-list response is a list of entries none of which names
\* restaurant `id`, so that checkIsRegistered resolves false
ListsAsUnregistered(fetched, id) ==
  /\ fetched.t = "response"
  /\ fetched.body.json
  /\ \A i \in 1..Len(ListedEntries(fetched)) : ListedEntries(fetched)[i] # Null
  /\ ~Names(ListedEntries(fetched), id)

\* The requests of the settled call that are POSTs
Posts == {i \in 1..Len(sent) : sent[i].method = "POST"}

(* C11: unregister() fails with the not-registered error, without issuing  *)
(* the deletion POST, whenever the restaurant is not currently registered; *)
(* otherwise it issues exactly one deletion POST keyed by the restaurant   *)
(* id.                                                                     *)
C11_UnregisterOnlyWhenRegistered ==
  op.name = "unregister" =>
    /\ ListsAsUnregistered(FirstResponse, op.args.id) =>
         /\ op.outcome = "rejected"
         /\ op.error = "Restaurant is not registered"
         /\ Posts = {}
    /\ ListsAsRegistered(FirstResponse, op.args.id) =>
         /\ Posts = {2}
         /\ sent[2].url.path = DELETE_MY_RESTAURANT
         /\ sent[2].body.v.a[1].o.restaurantId = Str(op.args.id)
         /\ Len(sent[2].body.v.a) = 1

C11_Witness ==
  /\ op.name = "unregister"
  /\ ListsAsRegistered(FirstResponse, op.args.id)
  /\ op.args.id = "R2"
  /\ Len(sent) = 2
  /\ sent[2].body.v.a[1].o.restaurantId = Str("R2")
  /\ op.outcome = "resolved"

C13_CheckRejectsFailedGet ==
  (op.name = "checkIsRegistered"
     /\ (FirstResponse.t = "error" \/ ~FirstResponse.ok)) =>
    /\ op.outcome = "rejected"
    /\ op.error = "Failed to check if restaurant is registered"

(* C14: register() and unregister() reject with their registration /       *)
(* unregistration error whenever the response to their POST is not ok, and *)
(* resolve only when it is ok.                                             *)
C14_PostMustBeOk ==
  op.name \in {"register", "unregister"} =>
    /\ (Len(got) = 2 /\ got[2].t = "response" /\ ~got[2].ok) =>
         /\ op.outcome = "rejected"
         /\ op.error = IF op.name = "register"
                       THEN "Failed to register restaurant"
                       ELSE "Failed to unregister restaurant"
    /\ op.outcome = "resolved" =>
         /\ Len(got) = 2
         /\ got[2].t = "response"
         /\ got[2].ok

C14_Witness ==
  /\ op.name = "register"
  /\ Len(got) = 2
  /\ got[2].t = "response"
  /\ got[2].status = 500
  /\ op.outcome = "rejected"

----------------------------------------------------------------------------
(* Properties of searchRestaurant.                                         *)

\* The data field of the body of a JSON response
DataOf(fetched) == Prop(fetched.body.v, "data")

\* searchRestaurant has just settled on a JSON response whose data is an array
SearchGotArray ==
  /\ op.name = "searchRestaurant"
  /\ FirstResponse.t = "response"
  /\ FirstResponse.body.json
  /\ DataOf(FirstResponse).t = "array"

\* The element has the three string fields of a restaurant
HasRestaurantFields(element) ==
  /\ IsString(Prop(element, "restaurantCode"))
  /\ IsString(Prop(element, "restaurantName"))
  /\ IsString(Prop(element, "restaurantDesc"))

\* The value is the list of Restaurants built from `elements`, in their order
RestaurantsOf(value, elements) ==
  /\ value.t = "array"
  /\ Len(value.a) = Len(elements)
  /\ \A i \in 1..Len(elements) :
       /\ value.a[i].o.id = Prop(elements[i], "restaurantCode")
       /\ value.a[i].o.name = Prop(elements[i], "restaurantName")
       /\ value.a[i].o.description = Prop(elements[i], "restaurantDesc")

(* C15: for every restaurant search response whose data array contains an  *)
(* element that lacks a string restaurantDesc (or restaurantCode or        *)
(* restaurantName), searchRestaurant fails with the shape-validation error *)
(* and returns no partial list, wherever in the array the bad element is.  *)
C15_BadElementFailsValidation ==
  (SearchGotArray
     /\ \E i \in 1..Len(DataOf(FirstResponse).a) :
          ~HasRestaurantFields(DataOf(FirstResponse).a[i])) =>
    /\ op.outcome = "rejected"
    /\ op.error = "Invalid restaurant data format"

(* C16 as stated: searchRestaurant fails with a search error if the        *)
(* request itself failed or if the response body's data field is absent    *)
(* or not an array; otherwise it returns one Restaurant per data element   *)
(* in the order of the response.                                           *)
C16_SearchFailsOrReturnsAll ==
  op.name = "searchRestaurant" =>
    IF SearchGotArray
    THEN /\ op.outcome = "resolved"
         /\ RestaurantsOf(op.value, DataOf(FirstResponse).a)
    ELSE /\ op.outcome = "rejected"
         /\ op.error \in {"Failed to search restaurant",
                          "Invalid response format"}

(* C16 as amended: searchRestaurant fails with a search error if the       *)
(* request itself failed, the body is not JSON, or the body's data field   *)
(* is absent or not an array; otherwise, when every data element has its   *)
(* three string fields, it returns one Restaurant per data element in the  *)
(* order of the response, and else it fails without returning a list.      *)
C16_SearchFailsOrReturnsValidated ==
  op.name = "searchRestaurant" =>
    IF ~SearchGotArray
    THEN /\ op.outcome = "rejected"
         /\ op.error = IF FirstResponse.t = "error" \/ ~FirstResponse.body.json
                       THEN "Failed to search restaurant"
                       ELSE "Invalid response format"
    ELSE IF \A i \in 1..Len(DataOf(FirstResponse).a) :
              HasRestaurantFields(DataOf(FirstResponse).a[i])
    THEN /\ op.outcome = "resolved"
         /\ RestaurantsOf(op.value, DataOf(FirstResponse).a)
    ELSE op.outcome = "rejected"

C16_Witness ==
  /\ SearchGotArray
  /\ op.outcome = "resolved"
  /\ Len(op.value.a) = 2
  /\ op.value.a[1].o.id = Str("R2")
  /\ op.value.a[2].o.id = Str("R1")

----------------------------------------------------------------------------
(* Properties of listMeal and listMealTimes.                               *)

\* The call has just settled on an ok response with a JSON body
GotOkJson(name) ==
  /\ op.name = name
  /\ FirstResponse.t = "response"
  /\ FirstResponse.ok
  /\ FirstResponse.body.json

\* data.mealList of the body of a JSON response
MealListOf(fetched) == Prop(DataOf(fetched), "mealList")

(* C17: given a successful meal-list response in which data.mealList is    *)
(* absent, listMeal fails (it does not return an empty list), while given  *)
(* a successful meal-time response in which data is absent, listMealTimes  *)
(* returns the empty list.                                                 *)
C17_MissingListFailsMissingTimesEmpty ==
  /\ (GotOkJson("listMeal") /\ MealListOf(FirstResponse) = Undefined) =>
       op.outcome = "rejected"
  /\ (GotOkJson("listMealTimes") /\ DataOf(FirstResponse) = Undefined) =>
       op.outcome = "resolved" /\ op.value = Arr(<<>>)

C17_Witness ==
  /\ GotOkJson("listMeal")
  /\ op.args.variant = "typed"
  /\ FirstResponse.body.v = Obj([data |-> Obj(EmptyObj)])
  /\ op.outcome = "rejected"

\* The element has the six required string fields of a meal
HasMealFields(element) ==
  \A field \in {"hallNo", "menuName", "courseTxt", "menuCourseType",
                "photoUrl", "photoCd"} : IsString(Prop(element, field))

(* C18: listMeal fails the whole call as soon as one mealList element      *)
(* lacks a required string field (hallNo, menuName, courseTxt,             *)
(* menuCourseType, photoUrl, photoCd): it never skips a bad element and    *)
(* never returns a partial list, so every Meal it returns was built from a *)
(* validated element.                                                      *)
C18_ListMealAllOrNothing ==
  (op.name = "listMeal" /\ FirstResponse.t = "response"
     /\ FirstResponse.body.json /\ MealListOf(FirstResponse).t = "array") =>
    LET mealList == MealListOf(FirstResponse).a
    IN /\ (\E i \in 1..Len(mealList) : ~HasMealFields(mealList[i])) =>
            op.outcome = "rejected"
       /\ op.outcome = "resolved" =>
            /\ Len(op.value.a) = Len(mealList)
            /\ \A i \in 1..Len(mealList) :
                 /\ HasMealFields(mealList[i])
                 /\ op.value.a[i].o.name = Prop(mealList[i], "menuName")
                 /\ op.value.a[i].o.hallNo = Prop(mealList[i], "hallNo")

C18_Witness ==
  /\ op.name = "listMeal"
  /\ op.args.variant = "typed"
  /\ FirstResponse.t = "response"
  /\ FirstResponse.body.json
  /\ MealListOf(FirstResponse).t = "array"
  /\ Len(MealListOf(FirstResponse).a) = 2
  /\ HasMealFields(MealListOf(FirstResponse).a[1])
  /\ Prop(MealListOf(FirstResponse).a[2], "menuName") = Str("nophoto")
  /\ op.outcome = "rejected"
  /\ op.error = "Invalid meal data format"

----------------------------------------------------------------------------
(* Properties of listMealMenus.                                            *)

(* C19: listMealMenus fails with the request error if the underlying call  *)
(* itself failed, and returns the empty list only for a successful         *)
(* response whose data field is absent (or is the empty array); the two    *)
(* outcomes are never confused.                                            *)
C19_EmptyMenusOnlyOnSuccess ==
  op.name = "listMealMenus" =>
    /\ FirstResponse.t = "error" =>
         op.outcome = "rejected" /\ op.error = "Failed to list meal menu"
    /\ (op.outcome = "resolved" /\ op.value = Arr(<<>>)) =>
         /\ FirstResponse.t = "response"
         /\ FirstResponse.ok
         /\ FirstResponse.body.json
         /\ DataOf(FirstResponse) \in {Undefined, Arr(<<>>)}

\* The decimal strings of the spec's example entry
Kcal1234 == Str(<<"1", ",", "2", "3", "4">>)
TotCho10p5 == Str(<<"1", "0", ".", "5">>)

(* C20: listMealMenus maps each raw nutrient entry to a record whose       *)
(* isMain is true iff typicalMenu equals "Y" and whose numeric fields are  *)
(* numbers parsed from the decimal strings, calorie being parsed after     *)
(* stripping thousands-separator commas (kcal "1,234" gives calorie 1234,  *)
(* totCho "10.5" gives carbohydrate 10.5).                                 *)
C20_MenusAreParsed ==
  (op.name = "listMealMenus" /\ op.outcome = "resolved"
     /\ DataOf(FirstResponse).t = "array") =>
    /\ Len(op.value.a) = Len(DataOf(FirstResponse).a)
    /\ \A i \in 1..Len(op.value.a) :
         LET raw == DataOf(FirstResponse).a[i]
             menu == op.value.a[i].o
         IN /\ menu.isMain = Bool(Prop(raw, "typicalMenu") = Str("Y"))
            /\ IsString(Prop(raw, "kcal")) =>
                 menu.calorie.t \in {"number", "NaN"}
            /\ \A field \in {"carbohydrate", "sugar", "fiber", "fat",
                             "protein"} :
                 menu[field].t \in {"number", "NaN"}
            /\ Prop(raw, "kcal") = Kcal1234 => menu.calorie = Num(1234)
            /\ Prop(raw, "totCho") = TotCho10p5 =>
                 menu.carbohydrate = [t |-> "number", n |-> 105, d |-> 10]

----------------------------------------------------------------------------
(* Properties of the error handling as a whole.                            *)

\* The operations that parse the body of their response as JSON
JsonOperations ==
  {"login", "refreshSession", "searchRestaurant", "checkIsRegistered",
   "listMealTimes", "listMeal", "listMealMenus"}

\* The operations whose description requires an ok status
StatusOperations ==
  {"refreshSession", "checkIsRegistered", "register", "unregister"}

\* The parsed body lacks the field the operation reads, or holds it with
\* another type
Misshapen(name, body) ==
  CASE name = "refreshSession" ->
         \/ ~IsString(Prop(body, "data"))
         \/ Prop(decode(Prop(body, "data").s), "exp").t # "number"
    [] name = "searchRestaurant" ->
         \/ Prop(body, "data").t # "array"
         \/ \E i \in 1..Len(Prop(body, "data").a) :
              ~HasRestaurantFields(Prop(body, "data").a[i])
    [] name = "listMeal" ->
         \/ Prop(Prop(body, "data"), "mealList").t # "array"
         \/ \E i \in 1..Len(Prop(Prop(body, "data"), "mealList").a) :
              ~HasMealFields(Prop(Prop(body, "data"), "mealList").a[i])
    [] name \in {"checkIsRegistered", "listMealTimes", "listMealMenus"} ->
         Prop(body, "data").t # "array"
    [] OTHER -> FALSE

\* The settled call met one of the failures of the taxonomy
MetFailure ==
  \E i \in 1..Len(got) :
    \/ got[i].t = "error"
    \/ /\ got[i].t = "response"
       /\ \/ op.name \in StatusOperations /\ ~got[i].ok
          \/ op.name \in JsonOperations /\ ~got[i].body.json
          \/ /\ op.name \in JsonOperations
             /\ got[i].body.json
             /\ Misshapen(op.name, got[i].body.v)

\* The two documented cases: data absent from an otherwise successful
\* response of listMealTimes or listMealMenus, answered with the empty list
DegradesToEmpty ==
  /\ op.name \in {"listMealTimes", "listMealMenus"}
  /\ FirstResponse.t = "response"
  /\ FirstResponse.ok
  /\ FirstResponse.body.json
  /\ DataOf(FirstResponse) = Undefined
  /\ op.outcome = "resolved"
  /\ op.value = Arr(<<>>)

(* C21: every failure (transport failure, non-2xx status on an operation   *)
(* that requires success, unparsable body, missing or mistyped fields)     *)
(* surfaces as a rejected operation; the only failures turned into a       *)
(* normal result are the two documented degrade-to-empty-list cases,       *)
(* listMealTimes and listMealMenus when data is absent from an otherwise   *)
(* successful response.                                                    *)
C21_FailuresReject ==
  (op.name # "idle" /\ MetFailure) =>
    (op.outcome = "rejected" \/ DegradesToEmpty)

(* C26: request merges the fixed header set (User-Agent, X-Device-Id,      *)
(* Authorization if a token is held) with the caller-supplied headers so   *)
(* that for every header name present in both, the outgoing request        *)
(* carries the caller's value and exactly one value for that name,         *)
(* whatever the letter case the caller used for the name.                  *)
C26_CallerHeaderReplacesFixed ==
  op.name = "request" =>
    \A k \in DOMAIN op.args.headers :
      (\/ Lower(k) \in {"user-agent", "x-device-id"}
       \/ Lower(k) = "authorization" /\ accessToken # Undefined) =>
        WireValues(sent[1].headers, Lower(k)) = {op.args.headers[k]}

(* C29: the token is written exactly under these conditions, independent   *)
(* of whether the operation then rejects: login writes accessToken iff the *)
(* response has an Authorization header (also when the body then fails to  *)
(* parse as JSON), and refreshSession writes it iff the response is ok and *)
(* the parsed body's data is a string (also when decoding that token then  *)
(* fails); in every other failing case accessToken keeps its previous      *)
(* value.                                                                  *)
C29_TokenWrittenWhenItArrives ==
  [][/\ op'.name = "login" =>
          accessToken' = IF TokenArrives(op', got'[1])
                         THEN Str(got'[1].headers["authorization"])
                         ELSE accessToken
     /\ op'.name = "refreshSession" =>
          accessToken' = IF TokenArrives(op', got'[1])
                         THEN Prop(got'[1].body.v, "data")
                         ELSE accessToken]_vars

C29_Witness ==
  /\ op.name = "refreshSession"
  /\ TokenArrives(op, FirstResponse)
  /\ op.outcome = "rejected"
  /\ op.error = "TypeError"
  /\ accessToken = Str("opaque")
  /\ Bearer(accessToken) # WireValues(sent[1].headers, "authorization")

(* C30: every Meal returned by listMeal has photoUrl equal to the          *)
(* element's photoUrl followed by its photoCd, carries the date and        *)
(* mealTimeId passed to listMeal, and has setName and subMenuTxt equal to  *)
(* null (never undefined) when the element lacks setMenuName / subMenuTxt. *)
C30_MealFields ==
  (op.name = "listMeal" /\ op.outcome = "resolved") =>
    \A i \in 1..Len(op.value.a) :
      LET element == MealListOf(FirstResponse).a[i]
          meal == op.value.a[i].o
      IN /\ meal.photoUrl = Str(Prop(element, "photoUrl").s
                                  \o Prop(element, "photoCd").s)
         /\ meal.date = Num(op.args.date)
         /\ meal.mealTimeId = Str(op.args.mealTimeId)
         /\ Prop(element, "setMenuName") = Undefined => meal.setName = Null
         /\ Prop(element, "subMenuTxt") = Undefined => meal.subMenuTxt = Null

----------------------------------------------------------------------------
(* Properties of universalFetch and xhrFetch (TransportSpec).              *)

(* C22: no operation retries automatically: one call of universalFetch     *)
(* (and of any client operation built on request) sends its HTTP request   *)
(* at most once, so a request that failed on one primitive is never        *)
(* re-issued on that primitive or on a later one.                          *)
C22_RequestSentAtMostOnce ==
  Len(net.tried) <= 1

(* C23: universalFetch tries the HTTP primitives in the fixed order global *)
(* fetch, undici fetch, XMLHttpRequest, Node http/https; the first one     *)
(* available in the environment serves the request and no later one is     *)
(* used, the same choice for every call in the process; if none is         *)
(* available the call fails with a transport-unavailable error.            *)
C23_FirstAvailableServes ==
  /\ \A i \in 1..Len(net.tried) : net.tried[i] = Strategy(env, 1)
  /\ (net.pc = "done" /\ Strategy(env, 1) = "none") =>
       /\ net.promise.outcome = "rejected"
       /\ net.promise.error \in {NoClient, NoClientError("Cannot find module")}

(* C24: on the XMLHttpRequest transport, a network failure and a timeout   *)
(* each reject the request's promise; for every order in which the XHR's   *)
(* readyState-4, error and timeout callbacks can fire, a request that      *)
(* ended in a network error or timeout never resolves with a response,     *)
(* and the promise settles exactly once.                                   *)
C24_FailedXhrNeverResolves ==
  net.xhr.fate \in {"error", "timeout"} => net.promise.outcome # "resolved"

----------------------------------------------------------------------------
(* Properties of concurrent callers (ConcurrentSpec).                      *)

\* The calls whose response carried a token, and the token
Arrived ==
  {c \in Callers : calls[c].pc = "done" /\ TokenArrives(calls[c], calls[c].got[1])}

ArrivedToken(c) ==
  IF calls[c].name = "login"
  THEN Str(calls[c].got[1].headers["authorization"])
  ELSE Prop(calls[c].got[1].body.v, "data")

LastArrived ==
  CHOOSE c \in Arrived :
    \A d \in Arrived : calls[d].settledAt <= calls[c].settledAt

(* C27: when two refreshSession (or login) calls run concurrently on one   *)
(* client, after both have completed accessToken equals the token written  *)
(* by whichever call wrote last (the one whose response was processed      *)
(* last, not necessarily the one issued last); no write is lost otherwise  *)
(* and the field never holds a value neither call returned.                *)
C27_LastProcessedWins ==
  /\ accessToken \in {Undefined} \cup {ArrivedToken(c) : c \in Arrived}
  /\ (\A c \in Callers : calls[c].pc = "done") =>
       accessToken = IF Arrived = {} THEN Undefined
                     ELSE ArrivedToken(LastArrived)

C27_Witness ==
  /\ Arrived = Callers
  /\ calls[1].issuedAt < calls[2].issuedAt
  /\ calls[1].settledAt > calls[2].settledAt
  /\ ArrivedToken(1) # ArrivedToken(2)
  /\ accessToken = ArrivedToken(1)

\* The positions of the POSTs among the requests of a call
PostsOf(c) ==
  {i \in 1..Len(calls[c].sent) : calls[c].sent[i].method = "POST"}

(* C28: within one register() or unregister() call the list GET always     *)
(* completes before the POST is issued and at most one POST is issued; the *)
(* check and the POST are not atomic, so two concurrent register() calls   *)
(* on the same unregistered restaurant can both pass the check and both    *)
(* POST.                                                                   *)
C28_ListThenOnePost ==
  \A c \in Callers :
    calls[c].name \in {"register", "unregister"} =>
      /\ Cardinality(PostsOf(c)) <= 1
      /\ calls[c].sent[1].method = "GET"
      /\ calls[c].sent[1].url.path = LIST_MY_RESTAURANT
      /\ \A i \in PostsOf(c) :
           /\ i = 2
           /\ Len(calls[c].got) >= 1
           /\ calls[c].got[1].t = "response"

C28_Witness ==
  /\ \A c \in Callers :
       /\ calls[c].name = "register"
       /\ calls[c].id = "R1"
       /\ calls[c].pc = "posting"
       /\ PostsOf(c) = {2}
  /\ "R1" \notin registered

----------------------------------------------------------------------------
(* Properties of the automatic refresh (AutomaticSpec).                    *)

\* The option is on: true where it was passed last, false nowhere
AutomaticOn ==
  /\ Bool(TRUE) \in {refreshOption.client, refreshOption.login}
  /\ Bool(FALSE) \notin {refreshOption.client, refreshOption.login}

\* The token held has run out
Expired ==
  /\ accessToken # Undefined
  /\ Prop(decode(accessToken.s), "exp").t = "number"
  /\ Prop(decode(accessToken.s), "exp").n * 1000 <= clock

\* The client has sent a request for a new session
RefreshIssued ==
  \E i \in 1..Len(sent) : sent[i].url.path = SESSION_REFRESH

(* C25: a client constructed or logged in with automaticTokenRefresh true  *)
(* refreshes the session automatically when the token expires: a refresh   *)
(* is eventually issued without the caller invoking refreshSession; with   *)
(* the option false or unset no automatic refresh is issued.               *)
C25_RefreshesWhenExpired ==
  (AutomaticOn /\ Expired) ~> RefreshIssued

====
